---- MODULE Spec2Model ----
(***************************************************************************)
(* Accounting core of the token-staking program in src/lib.rs: the four    *)
(* handlers of staking_program (initialize_stake_pool, stake_tokens,       *)
(* unstake_tokens, claim_rewards), the StakePool and UserStake accounts    *)
(* and calculate_reward.                                                   *)
(*                                                                         *)
(* One token mint, hence one StakePool account (its address is derived     *)
(* from the mint) and one UserStake account per user (its address is       *)
(* derived from the user and the pool).  The ledger runtime runs every     *)
(* instruction atomically: an instruction that returns Err or panics       *)
(* leaves no account changed, accounts created by `init` included.         *)
(*                                                                         *)
(* u64 fields are modelled at a width of WordBits bits: every +, - and *   *)
(* on them is taken modulo 2^WordBits exactly where Rust takes it modulo   *)
(* 2^64.  Rust's +, -, * on integers either panic on overflow (profile     *)
(* with overflow-checks) or wrap (profile without); the crate's manifest   *)
(* is not part of the sources, so the profile is a choice made once, in    *)
(* Init (overflow_checks).  An `as` cast never panics.                     *)
(*                                                                         *)
(* The token program's transfer and the clock sysvar are external: a       *)
(* transfer is declined when the caller's instruction input says so        *)
(* (xfer_ok = FALSE) or when the pool's token account cannot cover or hold *)
(* the amount; the clock takes any value of Times between instructions.    *)
(* Seeds/bump address checks of the Accounts structs are taken to pass for *)
(* the accounts of the right mint and user.                                *)
(*                                                                         *)
(* Three specifications: Spec lets the clock take any value between        *)
(* instructions; SpecMono lets it only go forward; SpecLong is a long run  *)
(* of one staker claiming over and over, long enough for reward_debt to    *)
(* pass the word's maximum.                                                *)
(***************************************************************************)
EXTENDS Integers, FiniteSets, TLC

\* Width, in bits, at which the program's u64 values are modelled.
WordBits == 20

\* Number of instructions in a run.
MaxCalls == 4

\* Number of instructions in a long run of one staker (SpecLong).
MaxLongCalls == 1060

\* The denominator of the reward formula (src/lib.rs:241).
SCALE == 1000

Modulus == 2 ^ WordBits
U64_MAX == Modulus - 1

\* The one token mint, and the callers.
Mint == "mint"
Users == {"alice", "bob"}
Authorities == {"admin"}
Rates == {0, 100}
StakeAmounts == {0, 500, U64_MAX}
UnstakeAmounts == {200, 500, U64_MAX}
Times == {0, 10, 20}

\* The inputs of the long run.
LongRun == [rate |-> 100, amount |-> 500, time |-> 20]
LongReward == (LongRun.amount * LongRun.rate * LongRun.time) \div SCALE

VARIABLES
    stake_pool,        \* the StakePool account of the mint
    user_stake,        \* user -> that user's UserStake account for the pool
    pool_balance,      \* amount held by pool_token_account
    now,               \* Clock::get()?.unix_timestamp
    overflow_checks,   \* the build profile: TRUE = arithmetic overflow panics
    paid,              \* user -> reward tokens transferred to the user so far
    claimed,           \* user -> reward of the user's latest successful Claim since
                       \*         their latest successful Stake or Unstake, else -1
    last,              \* the latest instruction and its outcome
    calls              \* number of instructions run

vars == <<stake_pool, user_stake, pool_balance, now, overflow_checks, paid, claimed,
          last, calls>>

----------------------------------------------------------------------------
\* Accounts

NoPool ==
    [exists |-> FALSE, authority |-> "none", token_mint |-> "none",
     total_staked |-> 0, stake_rate |-> 0]

NoUserStake ==
    [exists |-> FALSE, amount |-> 0, staked_at |-> 0, reward_debt |-> 0]

NoCall ==
    [op |-> "none", user |-> "none", arg |-> 0, err |-> "Ok", xfer |-> "none",
     xfer_amount |-> 0, calc |-> "none", reward |-> 0, total_before |-> 0,
     time |-> 0]

----------------------------------------------------------------------------
\* u64 arithmetic.  Each operator yields [ok, v]: v is the result modulo
\* 2^WordBits, ok is FALSE when the profile panics on the step.

RECURSIVE wrapping_mul(_, _)
\* a * b modulo 2^WordBits, by doubling, so that no intermediate value
\* leaves the range of the model checker's integers.
wrapping_mul(a, b) ==
    IF b = 0 THEN 0
    ELSE (2 * wrapping_mul(a, b \div 2) + (b % 2) * a) % Modulus

MulOverflows(a, b) == a # 0 /\ b > U64_MAX \div a

U64Add(a, b) ==
    [ok |-> ~(overflow_checks /\ a + b > U64_MAX), v |-> (a + b) % Modulus]

U64Sub(a, b) ==
    [ok |-> ~(overflow_checks /\ a < b), v |-> (a - b) % Modulus]

U64Mul(a, b) ==
    [ok |-> ~(overflow_checks /\ MulOverflows(a, b)), v |-> wrapping_mul(a, b)]

\* `x as u64` for a signed x: two's complement, never a panic.
AsU64(x) == x % Modulus

----------------------------------------------------------------------------
\* calculate_reward: [ok, v]

\* Variant: staked_at is not subtracted from the current time.
calculate_reward_FromEpoch(pool, us, current_time) ==
    LET time_passed == AsU64(current_time)
        m1 == U64Mul(us.amount, pool.stake_rate)
        m2 == U64Mul(m1.v, time_passed)
    IN  [ok |-> m1.ok /\ m2.ok, v |-> m2.v \div SCALE]

\* Variant: the rate is added to the elapsed time instead of multiplied in.
calculate_reward_AddsRate(pool, us, current_time) ==
    LET time_passed == AsU64(current_time - us.staked_at)
        m1 == U64Add(pool.stake_rate, time_passed)
        m2 == U64Mul(us.amount, m1.v)
    IN  [ok |-> m1.ok /\ m2.ok, v |-> m2.v \div SCALE]

calculate_reward(pool, us, current_time) ==
    LET time_passed == AsU64(current_time - us.staked_at)
        m1 == U64Mul(us.amount, pool.stake_rate)
        m2 == U64Mul(m1.v, time_passed)
    IN  [ok |-> m1.ok /\ m2.ok, v |-> m2.v \div SCALE]

----------------------------------------------------------------------------
\* token::transfer, as seen by the pool's token account: [ok, bal]

TransferIn(amount, xfer_ok) ==
    [ok |-> xfer_ok /\ pool_balance + amount <= U64_MAX, bal |-> pool_balance + amount]

TransferOut(amount, xfer_ok) ==
    [ok |-> xfer_ok /\ amount <= pool_balance, bal |-> pool_balance - amount]

----------------------------------------------------------------------------
Init ==
    /\ stake_pool = NoPool
    /\ user_stake = [u \in Users |-> NoUserStake]
    /\ pool_balance = 0
    /\ now \in Times
    /\ overflow_checks \in BOOLEAN
    /\ paid = [u \in Users |-> 0]
    /\ claimed = [u \in Users |-> -1]
    /\ last = NoCall
    /\ calls = 0

\* The clock sysvar between instructions.
SetClock(t) ==
    /\ t # now
    /\ now' = t
    /\ UNCHANGED <<stake_pool, user_stake, pool_balance, overflow_checks, paid, claimed,
                   last, calls>>

\* initialize_stake_pool, with the `init` constraint of InitializeStakePool.
\* Variant: the account constraint is init_if_needed instead of init.
InitializeErr_Reinit == "Ok"

InitializeErr == IF stake_pool.exists THEN "AlreadyInUse" ELSE "Ok"

initialize_stake_pool(authority, stake_rate) ==
    LET err == InitializeErr
    IN  /\ calls' = calls + 1
        /\ stake_pool' =
              IF err = "Ok"
              THEN [exists |-> TRUE, authority |-> authority, token_mint |-> Mint,
                    total_staked |-> 0, stake_rate |-> stake_rate]
              ELSE stake_pool
        /\ last' = [NoCall EXCEPT !.op = "initialize", !.user = authority,
                                  !.arg = stake_rate, !.err = err,
                                  !.total_before = stake_pool.total_staked, !.time = now]
        /\ UNCHANGED <<user_stake, pool_balance, now, overflow_checks, paid, claimed>>

\* The UserStake account an instruction of user u loads: its address is
\* derived from the seeds "user_stake", the user's key and the pool's key.
\* Variant: the user's key is missing from the seeds.
UserStakeKey_Shared(u) == CHOOSE v \in Users : TRUE

UserStakeKey(u) == u

\* The UserStake record stake_tokens writes.
\* Variant: the accrual baseline is set one time unit ahead of the clock.
NewUserStake_Ahead(amount) ==
    [exists |-> TRUE, amount |-> amount, staked_at |-> now + 1, reward_debt |-> 0]

NewUserStake(amount) ==
    [exists |-> TRUE, amount |-> amount, staked_at |-> now, reward_debt |-> 0]

\* stake_tokens, with the constraints of StakeTokens (stake_pool must exist,
\* user_stake is init_if_needed).
\* Variant: the result of token::transfer is dropped (no `?`).
StakeErr_IgnoresTransfer(u, amount, xfer_ok) ==
    IF ~stake_pool.exists THEN "AccountNotInitialized"
    ELSE IF ~U64Add(stake_pool.total_staked, amount).ok THEN "Panic"
    ELSE "Ok"

StakeErr(u, amount, xfer_ok) ==
    IF ~stake_pool.exists THEN "AccountNotInitialized"
    ELSE IF ~TransferIn(amount, xfer_ok).ok THEN "TransferFailed"
    ELSE IF ~U64Add(stake_pool.total_staked, amount).ok THEN "Panic"
    ELSE "Ok"

stake_tokens(u, amount, xfer_ok) ==
    LET err == StakeErr(u, amount, xfer_ok)
        xfer == TransferIn(amount, xfer_ok)
        total == U64Add(stake_pool.total_staked, amount)
    IN  /\ calls' = calls + 1
        /\ IF err = "Ok"
           THEN /\ pool_balance' = xfer.bal
                /\ stake_pool' = [stake_pool EXCEPT !.total_staked = total.v]
                /\ user_stake' = [user_stake EXCEPT ![UserStakeKey(u)] = NewUserStake(amount)]
                /\ claimed' = [claimed EXCEPT ![u] = -1]
           ELSE UNCHANGED <<pool_balance, stake_pool, user_stake, claimed>>
        /\ last' = [NoCall EXCEPT
               !.op = "stake", !.user = u, !.arg = amount, !.err = err,
               !.xfer = IF ~stake_pool.exists THEN "none"
                        ELSE IF xfer.ok THEN "done" ELSE "failed",
               !.xfer_amount = IF stake_pool.exists THEN amount ELSE 0,
               !.total_before = stake_pool.total_staked, !.time = now]
        /\ UNCHANGED <<now, overflow_checks, paid>>

\* unstake_tokens, with the constraints of UnstakeTokens (both accounts
\* must exist).
\* Variant: the require! on the staked amount is missing.
UnstakeErr_NoStakeCheck(u, amount, xfer_ok) ==
    LET us == user_stake[UserStakeKey(u)]
        reward == calculate_reward(stake_pool, us, now)
        sum == U64Add(amount, reward.v)
    IN  IF ~stake_pool.exists \/ ~us.exists THEN "AccountNotInitialized"
        ELSE IF ~reward.ok THEN "Panic"
        ELSE IF ~sum.ok THEN "Panic"
        ELSE IF ~TransferOut(sum.v, xfer_ok).ok THEN "TransferFailed"
        ELSE IF ~U64Sub(stake_pool.total_staked, amount).ok THEN "Panic"
        ELSE IF ~U64Sub(us.amount, amount).ok THEN "Panic"
        ELSE "Ok"

UnstakeErr(u, amount, xfer_ok) ==
    LET us == user_stake[UserStakeKey(u)]
        reward == calculate_reward(stake_pool, us, now)
        sum == U64Add(amount, reward.v)
    IN  IF ~stake_pool.exists \/ ~us.exists THEN "AccountNotInitialized"
        ELSE IF ~(us.amount >= amount) THEN "InsufficientStake"
        ELSE IF ~reward.ok THEN "Panic"
        ELSE IF ~sum.ok THEN "Panic"
        ELSE IF ~TransferOut(sum.v, xfer_ok).ok THEN "TransferFailed"
        ELSE IF ~U64Sub(stake_pool.total_staked, amount).ok THEN "Panic"
        ELSE IF ~U64Sub(us.amount, amount).ok THEN "Panic"
        ELSE "Ok"

unstake_tokens(u, amount, xfer_ok) ==
    LET us == user_stake[UserStakeKey(u)]
        err == UnstakeErr(u, amount, xfer_ok)
        checked == stake_pool.exists /\ us.exists /\ us.amount >= amount
        reward == calculate_reward(stake_pool, us, now)
        sum == U64Add(amount, reward.v)
        requested == checked /\ reward.ok /\ sum.ok
        xfer == TransferOut(sum.v, xfer_ok)
    IN  /\ calls' = calls + 1
        /\ IF err = "Ok"
           THEN /\ pool_balance' = xfer.bal
                /\ stake_pool' = [stake_pool EXCEPT
                       !.total_staked = U64Sub(stake_pool.total_staked, amount).v]
                /\ user_stake' = [user_stake EXCEPT
                       ![u].amount = U64Sub(us.amount, amount).v]
                /\ paid' = [paid EXCEPT ![u] = @ + reward.v]
                /\ claimed' = [claimed EXCEPT ![u] = -1]
           ELSE UNCHANGED <<pool_balance, stake_pool, user_stake, paid, claimed>>
        /\ last' = [NoCall EXCEPT
               !.op = "unstake", !.user = u, !.arg = amount, !.err = err,
               !.calc = IF ~checked THEN "none"
                        ELSE IF reward.ok THEN "ok" ELSE "panic",
               !.reward = IF checked /\ reward.ok THEN reward.v ELSE 0,
               !.xfer = IF ~requested THEN "none"
                        ELSE IF xfer.ok THEN "done" ELSE "failed",
               !.xfer_amount = IF requested THEN sum.v ELSE 0,
               !.total_before = stake_pool.total_staked, !.time = now]
        /\ UNCHANGED <<now, overflow_checks>>

\* claim_rewards, with the constraints of ClaimRewards (both accounts must
\* exist).
ClaimErr(u, xfer_ok) ==
    LET us == user_stake[UserStakeKey(u)]
        reward == calculate_reward(stake_pool, us, now)
    IN  IF ~stake_pool.exists \/ ~us.exists THEN "AccountNotInitialized"
        ELSE IF ~reward.ok THEN "Panic"
        ELSE IF ~TransferOut(reward.v, xfer_ok).ok THEN "TransferFailed"
        ELSE IF ~U64Add(us.reward_debt, reward.v).ok THEN "Panic"
        ELSE "Ok"

claim_rewards(u, xfer_ok) ==
    LET us == user_stake[UserStakeKey(u)]
        err == ClaimErr(u, xfer_ok)
        loaded == stake_pool.exists /\ us.exists
        reward == calculate_reward(stake_pool, us, now)
        requested == loaded /\ reward.ok
        xfer == TransferOut(reward.v, xfer_ok)
    IN  /\ calls' = calls + 1
        /\ IF err = "Ok"
           THEN /\ pool_balance' = xfer.bal
                /\ user_stake' = [user_stake EXCEPT
                       ![u].reward_debt = U64Add(us.reward_debt, reward.v).v]
                /\ paid' = [paid EXCEPT ![u] = @ + reward.v]
                /\ claimed' = [claimed EXCEPT ![u] = reward.v]
           ELSE UNCHANGED <<pool_balance, user_stake, paid, claimed>>
        /\ last' = [NoCall EXCEPT
               !.op = "claim", !.user = u, !.err = err,
               !.calc = IF ~loaded THEN "none"
                        ELSE IF reward.ok THEN "ok" ELSE "panic",
               !.reward = IF loaded /\ reward.ok THEN reward.v ELSE 0,
               !.xfer = IF ~requested THEN "none"
                        ELSE IF xfer.ok THEN "done" ELSE "failed",
               !.xfer_amount = IF requested THEN reward.v ELSE 0,
               !.total_before = stake_pool.total_staked, !.time = now]
        /\ UNCHANGED <<stake_pool, now, overflow_checks>>

\* The instructions callers submit, within the run's budget of calls.
Initialize ==
    calls < MaxCalls /\ \E a \in Authorities, r \in Rates :
        initialize_stake_pool(a, r)

Stake ==
    calls < MaxCalls /\ \E u \in Users, x \in StakeAmounts, ok \in BOOLEAN :
        stake_tokens(u, x, ok)

Unstake ==
    calls < MaxCalls /\ \E u \in Users, x \in UnstakeAmounts, ok \in BOOLEAN :
        unstake_tokens(u, x, ok)

Claim ==
    calls < MaxCalls /\ \E u \in Users, ok \in BOOLEAN :
        claim_rewards(u, ok)

Next ==
    \/ \E t \in Times : SetClock(t)
    \/ Initialize
    \/ Stake
    \/ Unstake
    \/ Claim

\* The clock sysvar of a host whose clock never runs backwards.
AdvanceClock(t) ==
    /\ t > now
    /\ now' = t
    /\ UNCHANGED <<stake_pool, user_stake, pool_balance, overflow_checks, paid, claimed,
                   last, calls>>

NextMono ==
    \/ \E t \in Times : AdvanceClock(t)
    \/ Initialize
    \/ Stake
    \/ Unstake
    \/ Claim

Spec == Init /\ [][Next]_vars

SpecMono == Init /\ [][NextMono]_vars

\* A long run of one staker: alice stakes LongRun.amount once at clock 0
\* and claims at clock LongRun.time; bob's stakes keep the pool's token account
\* able to pay.  Same handlers, a narrower choice of callers and inputs.
LongInitialize ==
    /\ calls < MaxLongCalls /\ ~stake_pool.exists
    /\ \E a \in Authorities : initialize_stake_pool(a, LongRun.rate)

LongStake ==
    /\ calls < MaxLongCalls /\ stake_pool.exists /\ now = 0
    /\ ~user_stake["alice"].exists
    /\ stake_tokens("alice", LongRun.amount, TRUE)

LongFund ==
    /\ calls < MaxLongCalls /\ user_stake["alice"].exists /\ now = LongRun.time
    /\ pool_balance < LongReward
    /\ stake_tokens("bob", IF pool_balance = 0 THEN U64_MAX ELSE LongRun.amount, TRUE)

LongClaim ==
    /\ calls < MaxLongCalls /\ user_stake["alice"].exists /\ now = LongRun.time
    /\ pool_balance >= LongReward
    /\ claim_rewards("alice", TRUE)

NextLong ==
    \/ \E t \in Times : AdvanceClock(t)
    \/ LongInitialize
    \/ LongStake
    \/ LongFund
    \/ LongClaim

SpecLong == Init /\ [][NextLong]_vars
----------------------------------------------------------------------------
\* Quantities the properties speak of

RECURSIVE SumOver(_, _)
SumOver(f, S) ==
    IF S = {} THEN 0
    ELSE LET x == CHOOSE y \in S : TRUE IN f[x] + SumOver(f, S \ {x})

\* Sum of amount over all UserStake accounts of the pool.
SumOfAmounts == SumOver([u \in Users |-> user_stake[u].amount], Users)

\* floor(amount * rate * elapsed / SCALE) in unbounded arithmetic, for
\* elapsed >= 0; amount is split at SCALE to keep the intermediate values
\* small: amount = q * SCALE + s gives q * k + floor(s * k / SCALE), k = rate * elapsed.
ExactReward(amount, rate, elapsed) ==
    LET k == rate * elapsed
    IN  (amount \div SCALE) * k + ((amount % SCALE) * k) \div SCALE

\* amount * rate * elapsed exceeds the unsigned range (elapsed >= 0).
ProductOverflows(amount, rate, elapsed) ==
    \/ MulOverflows(amount, rate)
    \/ MulOverflows(amount * rate, elapsed)

IsCall == calls' = calls + 1

----------------------------------------------------------------------------
\* C1: in every reachable state the pool's total_staked equals the sum of
\* amount over all UserStake accounts of the pool.
C1_TotalEqualsSum ==
    stake_pool.exists => stake_pool.total_staked = SumOfAmounts
\* The accounts the call now being made would load, and the call's elapsed time.
Caller == user_stake[last'.user]
Elapsed == now - Caller.staked_at
RecordsUnchanged == stake_pool' = stake_pool /\ user_stake' = user_stake

----------------------------------------------------------------------------
\* C2: whenever the token transfer requested by Stake, Unstake or Claim
\* fails, the handler fails and the StakePool account and every UserStake
\* account are what they were before the call.
C2_FailedTransferKeepsRecords ==
    [][(IsCall /\ last'.xfer = "failed")
          => (last'.err # "Ok" /\ RecordsUnchanged)]_vars

C2_Witness ==
    /\ last.op = "claim" /\ last.xfer = "failed" /\ last.xfer_amount > 0
    /\ user_stake[last.user].amount > 0

----------------------------------------------------------------------------
\* C3: Unstake(x) with x greater than the amount of the caller's UserStake
\* account fails with InsufficientStake, requests no transfer and leaves
\* the StakePool and UserStake accounts unchanged.
C3_UnstakeTooMuch ==
    [][(IsCall /\ last'.op = "unstake" /\ Caller.exists /\ last'.arg > Caller.amount)
          => (/\ last'.err = "InsufficientStake"
              /\ last'.xfer = "none"
              /\ RecordsUnchanged)]_vars

C3_Witness ==
    /\ last.op = "unstake" /\ last.err = "InsufficientStake"
    /\ user_stake[last.user].amount = 300 /\ last.arg = 500
----------------------------------------------------------------------------
\* C4: a handler-level step on u64 values (Stake: total_staked + amount;
\* Unstake: amount + reward, total_staked - amount, user amount - amount;
\* Claim: reward_debt + reward) whose true result is outside 0..U64_MAX
\* makes the handler fail with no account changed.
StepOutOfRange ==
    \/ /\ last'.op = "stake" /\ last'.xfer = "done"
       /\ stake_pool.total_staked + last'.arg > U64_MAX
    \/ /\ last'.op = "unstake" /\ last'.calc = "ok"
       /\ \/ last'.arg + last'.reward > U64_MAX
          \/ stake_pool.total_staked - last'.arg < 0
          \/ Caller.amount - last'.arg < 0
    \/ /\ last'.op = "claim" /\ last'.calc = "ok"
       /\ Caller.reward_debt + last'.reward > U64_MAX

C4_OutOfRangeStepFails ==
    [][(IsCall /\ StepOutOfRange) => (last'.err # "Ok" /\ RecordsUnchanged)]_vars

----------------------------------------------------------------------------
\* C5: when amount * rate * elapsed exceeds the unsigned range, a reward
\* the calculator returns is the exact floor(amount * rate * elapsed / SCALE).
C5_NoWrappedProduct ==
    [][(/\ IsCall /\ last'.calc = "ok" /\ Elapsed >= 0
        /\ ProductOverflows(Caller.amount, stake_pool.stake_rate, Elapsed))
          => last'.reward = ExactReward(Caller.amount, stake_pool.stake_rate, Elapsed)]_vars

----------------------------------------------------------------------------
\* C6: for elapsed = now - staked_at >= 0 the reward Unstake and Claim use
\* is floor(amount * rate * elapsed / SCALE); it is 0 at elapsed = 0 and
\* does not decrease when amount or elapsed grows.
RewardAt(amount, elapsed) ==
    calculate_reward(stake_pool, [Caller EXCEPT !.amount = amount, !.staked_at = 0], elapsed).v

C6_RewardIsFloor ==
    [][(IsCall /\ last'.calc = "ok" /\ Elapsed >= 0)
          => (/\ last'.reward = ExactReward(Caller.amount, stake_pool.stake_rate, Elapsed)
              /\ Elapsed = 0 => last'.reward = 0
              /\ \A a \in StakeAmounts : a >= Caller.amount
                    => RewardAt(a, Elapsed) >= last'.reward
              /\ \A t \in Times : t >= Elapsed
                    => RewardAt(Caller.amount, t) >= last'.reward)]_vars

----------------------------------------------------------------------------
\* C7: when the clock given to Unstake or Claim is earlier than staked_at,
\* the reward computation fails and the handler fails with no transfer
\* requested and no account changed.
C7_NegativeElapsedFails ==
    [][(IsCall /\ last'.calc # "none" /\ Elapsed < 0)
          => (/\ last'.calc = "panic"
              /\ last'.err # "Ok"
              /\ last'.xfer = "none"
              /\ RecordsUnchanged)]_vars

----------------------------------------------------------------------------
----------------------------------------------------------------------------
\* C9: Initialize for a mint whose StakePool account exists fails and
\* leaves the account as it was.
C9_SecondInitializeFails ==
    [][(IsCall /\ last'.op = "initialize" /\ stake_pool.exists)
          => (last'.err # "Ok" /\ stake_pool' = stake_pool)]_vars

C9_Witness ==
    /\ last.op = "initialize" /\ last.err = "AlreadyInUse"
    /\ stake_pool.total_staked > 0 /\ stake_pool.stake_rate # last.arg

----------------------------------------------------------------------------
\* C10: a user's reward_debt equals the total of the reward tokens
\* transferred to the user by their successful Claim and Unstake calls.
C10_RewardDebtIsPaid ==
    \A u \in Users : user_stake[u].reward_debt = paid[u]
----------------------------------------------------------------------------
\* C11: a successful Stake(a) at clock value t requests a transfer of
\* exactly a into the pool, increases total_staked by exactly a and sets
\* the caller's UserStake record to amount = a, staked_at = t,
\* reward_debt = 0 whatever it held; Stake(0) is not rejected.
C11_StakeEffect ==
    [][/\ (IsCall /\ last'.op = "stake" /\ last'.err = "Ok")
          => (/\ last'.xfer = "done" /\ last'.xfer_amount = last'.arg
              /\ pool_balance' = pool_balance + last'.arg
              /\ stake_pool'.total_staked = stake_pool.total_staked + last'.arg
              /\ user_stake'[last'.user] =
                    [exists |-> TRUE, amount |-> last'.arg,
                     staked_at |-> now, reward_debt |-> 0])
       /\ (IsCall /\ last'.op = "stake" /\ last'.arg = 0 /\ last'.xfer = "done")
          => last'.err = "Ok"]_vars

----------------------------------------------------------------------------
\* C12: a successful Unstake(x) requests a transfer out of the pool of
\* exactly x + reward, the reward being that of the caller's amount before
\* the call over now - staked_at; it decreases total_staked and the
\* caller's amount by exactly x and leaves staked_at and reward_debt alone.
C12_UnstakeEffect ==
    [][(IsCall /\ last'.op = "unstake" /\ last'.err = "Ok")
          => (/\ last'.xfer = "done"
              /\ (Elapsed >= 0 /\ ~ProductOverflows(Caller.amount, stake_pool.stake_rate, Elapsed))
                    => last'.reward = ExactReward(Caller.amount, stake_pool.stake_rate, Elapsed)
              /\ last'.xfer_amount = last'.arg + last'.reward
              /\ pool_balance' = pool_balance - (last'.arg + last'.reward)
              /\ stake_pool'.total_staked = stake_pool.total_staked - last'.arg
              /\ user_stake'[last'.user] =
                    [Caller EXCEPT !.amount = Caller.amount - last'.arg])]_vars
----------------------------------------------------------------------------
\* C13: a successful Claim requests a transfer out of the pool of exactly
\* the computed reward and increases the caller's reward_debt by exactly
\* that reward; the caller's amount and staked_at and the pool's
\* total_staked stay as they were.
C13_ClaimEffect ==
    [][(IsCall /\ last'.op = "claim" /\ last'.err = "Ok")
          => (/\ last'.xfer = "done"
              /\ (Elapsed >= 0 /\ ~ProductOverflows(Caller.amount, stake_pool.stake_rate, Elapsed))
                    => last'.reward = ExactReward(Caller.amount, stake_pool.stake_rate, Elapsed)
              /\ last'.xfer_amount = last'.reward
              /\ pool_balance' = pool_balance - last'.reward
              /\ user_stake'[last'.user] =
                    [Caller EXCEPT !.reward_debt = Caller.reward_debt + last'.reward]
              /\ stake_pool' = stake_pool)]_vars
----------------------------------------------------------------------------
\* C14: under a nondecreasing clock, a successful Claim of a user who has
\* claimed successfully before, with no successful Stake or Unstake of
\* theirs in between, transfers at least the reward of that earlier Claim.
C14_ClaimsDoNotShrink ==
    [][(/\ IsCall /\ last'.op = "claim" /\ last'.err = "Ok"
        /\ claimed[last'.user] >= 0)
          => last'.xfer_amount >= claimed[last'.user]]_vars
----------------------------------------------------------------------------
\* C15: once the StakePool account exists, its stake_rate, authority and
\* token_mint never change.
C15_PoolIdentityFixed ==
    [][stake_pool.exists
          => (/\ stake_pool'.exists
              /\ stake_pool'.stake_rate = stake_pool.stake_rate
              /\ stake_pool'.authority = stake_pool.authority
              /\ stake_pool'.token_mint = stake_pool.token_mint)]_vars

C15_Witness ==
    /\ stake_pool.stake_rate = 100 /\ stake_pool.token_mint = Mint
    /\ last.op = "unstake" /\ last.err = "Ok"
    /\ user_stake[last.user].reward_debt > 0

----------------------------------------------------------------------------
\* C16: Initialize with stake_rate 0 is accepted, and in a pool of rate 0
\* every successful Claim transfers 0 and every successful Unstake(x)
\* transfers exactly x, so no reward is ever paid.
C16_ZeroRatePaysNothing ==
    /\ (last.op = "initialize" /\ last.arg = 0)
          => (stake_pool.exists /\ last.err \in {"Ok", "AlreadyInUse"})
    /\ (stake_pool.exists /\ stake_pool.stake_rate = 0)
          => (/\ \A u \in Users : paid[u] = 0
              /\ (last.op = "claim" /\ last.err = "Ok") => last.xfer_amount = 0
              /\ (last.op = "unstake" /\ last.err = "Ok") => last.xfer_amount = last.arg)

C16_Witness ==
    /\ stake_pool.exists /\ stake_pool.stake_rate = 0
    /\ last.op = "claim" /\ last.err = "Ok" /\ last.time = 20
    /\ user_stake[last.user].staked_at = 0
    /\ user_stake[last.user].amount = U64_MAX - 200

----------------------------------------------------------------------------
\* C17: the sum of amount over the UserStake accounts is at most
\* total_staked, so an Unstake(x) that passed its check x <= amount never
\* finds total_staked below x.
C17_SumWithinTotal ==
    /\ SumOfAmounts <= stake_pool.total_staked
    /\ (last.op = "unstake" /\ last.calc # "none") => last.arg <= last.total_before

----------------------------------------------------------------------------
\* C18: with the pool's token account starting empty and moved only by the
\* handlers' transfers, its balance is at least total_staked.
C18_CustodyCoversStake ==
    pool_balance >= stake_pool.total_staked

----------------------------------------------------------------------------
\* C19: under a nondecreasing clock every existing UserStake account has
\* staked_at <= now, so the elapsed time Unstake and Claim compute is not
\* negative and its cast to u64 keeps its value.
C19_StakedAtNotAfterNow ==
    /\ \A u \in Users : user_stake[u].exists
          => (/\ user_stake[u].staked_at <= now
              /\ AsU64(now - user_stake[u].staked_at) = now - user_stake[u].staked_at)
    /\ last.calc # "none" => last.time >= user_stake[last.user].staked_at

C19_Witness ==
    /\ last.op = "claim" /\ last.calc = "ok" /\ last.time = 20
    /\ user_stake[last.user].staked_at = 10 /\ now = 20

----------------------------------------------------------------------------
\* C20: a UserStake account changes only in a Stake, Unstake or Claim of
\* its own user: a call of one user leaves the others' accounts unchanged,
\* whether it succeeds or fails.
C20_OthersUntouched ==
    [][\A u \in Users : user_stake'[u] # user_stake[u]
          => (/\ IsCall
              /\ last'.user = u
              /\ last'.op \in {"stake", "unstake", "claim"})]_vars

C20_Witness ==
    /\ last.op = "unstake" /\ last.user = "alice" /\ last.err = "Ok"
    /\ user_stake["alice"].amount = 300
    /\ user_stake["bob"].exists /\ user_stake["bob"].amount = 500
====
